---- MODULE Spec2Model ----
(***************************************************************************)
(* Model of the Sonetto transcription orchestration:                       *)
(*   services/api/core/transcription.py   (transcribe_audio and helpers)   *)
(*   services/api/api/routes/sessions.py  (transcribe_session, the SSE     *)
(*                                         status stream)                  *)
(*   services/api/db/mongo/models.py      (the stored transcript)          *)
(*                                                                         *)
(* Times are whole seconds.  A text is the sequence of its whitespace-     *)
(* separated words, so " ".join is concatenation and split() is the        *)
(* identity on it.  A segment id str(n) is modelled by the number n.       *)
(* Optional values: None is <<>> and a present value x is <<x>>.           *)
(***************************************************************************)
EXTENDS Integers, Sequences, FiniteSets, TLC

(***************************************************************************)
(* Program constants.                                                      *)
(***************************************************************************)
SARVAM_BATCH_MAX_DURATION == 3300
\* fault: audio is chunked as soon as it is longer than one chunk
CHUNKING_THRESHOLD_AsChunkLength == SARVAM_BATCH_MAX_DURATION
CHUNKING_THRESHOLD == 3600
CHUNK_OVERLAP == 30
\* MIN_SEGMENT_DURATION = 0.5 s, kept doubled so that it stays an integer.
MIN_SEGMENT_DURATION_X2 == 1
poll_interval == 3
max_wait == 600
FALLBACK_SEGMENT_SECONDS == 10
MERGE_LOOKBACK == 3

(***************************************************************************)
(* Bounds of the model.                                                    *)
(***************************************************************************)
\* provider entries in one job's result
MaxEntries == 2
\* status polls of one job before the wall clock is taken past max_wait
MaxPolls == 3
\* transcribe requests that reach the provider
MaxRuns == 1
\* the longest audio whose chunk plan is examined (seconds)
MaxPlanDuration == 14000

None == <<>>
Some(x) == <<x>>

Min(a, b) == IF a < b THEN a ELSE b

(***************************************************************************)
(* format_timestamp: HH:MM:SS, modelled as <<hours, minutes, seconds>>.    *)
(***************************************************************************)
format_timestamp(seconds) ==
    LET total_seconds == seconds
    IN  << total_seconds \div 3600,
           (total_seconds % 3600) \div 60,
           total_seconds % 60 >>

(***************************************************************************)
(* str.lower() on the words the model uses.                                *)
(***************************************************************************)
Lower(w) ==
    CASE w = "Fine" -> "fine"
      [] w = "Bye" -> "bye"
      [] OTHER -> w

WordSet(text) == { Lower(text[n]) : n \in 1..Len(text) }

(***************************************************************************)
(* _text_similarity: |intersection| / |union| of the lower-cased word      *)
(* sets, 0.0 when either is empty; returned as the fraction <<num, den>>.  *)
(***************************************************************************)
text_similarity(text1, text2) ==
    LET words1 == WordSet(text1)
        words2 == WordSet(text2)
    IN  IF words1 = {} \/ words2 = {}
        THEN <<0, 1>>
        ELSE <<Cardinality(words1 \cap words2), Cardinality(words1 \cup words2)>>

\* similarity > 0.8
SimilarityAboveThreshold(sim) == 10 * sim[1] > 8 * sim[2]

(***************************************************************************)
(* speaker_id.replace("speaker", "Speaker").strip() on the provider's      *)
(* speaker ids the model uses.                                             *)
(***************************************************************************)
FriendlySpeaker(speaker_id) ==
    CASE speaker_id = "speaker 1" -> "Speaker 1"
      [] speaker_id = "speaker 2" -> "Speaker 2"
      [] speaker_id = " " -> ""
      [] OTHER -> speaker_id

(***************************************************************************)
(* transform_sarvam_sdk_response.  sdk_result is a record                  *)
(*   [entries    : sequence of [speaker_id, transcript, start_time_seconds,*)
(*                              end_time_seconds],                         *)
(*    transcript : text]                                                   *)
(***************************************************************************)
\* fault: only entries without text are skipped
SkipEntry_EmptyOnly(text, start_time, end_time) == text = <<>>

SkipEntry(text, start_time, end_time) ==
    text = <<>> \/ 2 * (end_time - start_time) < MIN_SEGMENT_DURATION_X2

RECURSIVE TransformEntries(_, _, _)
TransformEntries(entries, offset, idx) ==
    IF idx > Len(entries)
    THEN <<>>
    ELSE LET entry == entries[idx]
             text == entry.transcript
             start_time == entry.start_time_seconds + offset
             end_time == entry.end_time_seconds + offset
             rest == TransformEntries(entries, offset, idx + 1)
         IN  IF SkipEntry(text, start_time, end_time)
             THEN rest
             ELSE << [ id |-> idx,
                       speaker |-> FriendlySpeaker(entry.speaker_id),
                       timestamp |-> format_timestamp(start_time),
                       text |-> text,
                       start |-> start_time,
                       end |-> end_time ] >> \o rest

transform_sarvam_sdk_response(sdk_result, offset) ==
    IF sdk_result.entries = <<>>
    THEN IF sdk_result.transcript # <<>>
         THEN << [ id |-> 1,
                   speaker |-> "Speaker 1",
                   timestamp |-> format_timestamp(offset),
                   text |-> sdk_result.transcript,
                   start |-> offset,
                   end |-> offset + FALLBACK_SEGMENT_SECONDS ] >>
         ELSE <<>>
    ELSE TransformEntries(sdk_result.entries, offset, 1)

(***************************************************************************)
(* merge_overlapping_chunks.                                               *)
(***************************************************************************)
\* merged[-3:]
LastSegments(merged) ==
    SubSeq(merged, IF Len(merged) > MERGE_LOOKBACK
                   THEN Len(merged) - MERGE_LOOKBACK + 1 ELSE 1, Len(merged))

IsDuplicate(seg, merged) ==
    \E n \in 1..Len(LastSegments(merged)) :
        SimilarityAboveThreshold(
            text_similarity(seg.text, LastSegments(merged)[n].text))

\* fault: every segment of a later chunk is a duplicate candidate
InOverlapRegion_Always(seg, overlap_start) == TRUE

\* the "1s buffer" test that makes a segment a duplicate candidate
InOverlapRegion(seg, overlap_start) == seg.start < overlap_start + 1

RECURSIVE AppendChunk(_, _, _, _)
AppendChunk(merged, chunk_segments, overlap_start, n) ==
    IF n > Len(chunk_segments)
    THEN merged
    ELSE LET seg == chunk_segments[n]
         IN  IF InOverlapRegion(seg, overlap_start) /\ IsDuplicate(seg, merged)
             THEN AppendChunk(merged, chunk_segments, overlap_start, n + 1)
             ELSE AppendChunk(Append(merged, seg), chunk_segments,
                              overlap_start, n + 1)

RECURSIVE DedupChunks(_, _, _)
DedupChunks(merged, all_chunk_segments, chunk_idx) ==
    IF chunk_idx > Len(all_chunk_segments)
    THEN merged
    ELSE IF chunk_idx = 1
         THEN DedupChunks(merged \o all_chunk_segments[1],
                          all_chunk_segments, 2)
         ELSE LET prev_chunk_end_time ==
                      IF merged # <<>> THEN merged[Len(merged)].end ELSE 0
                  overlap_start == prev_chunk_end_time - CHUNK_OVERLAP
              IN  DedupChunks(
                      AppendChunk(merged, all_chunk_segments[chunk_idx],
                                  overlap_start, 1),
                      all_chunk_segments, chunk_idx + 1)

\* `if current_speaker:` : not None and not the empty string
Truthy(current_speaker) ==
    current_speaker # None /\ current_speaker[1] # ""

FlushCurrent(final_segments, cur) ==
    IF Truthy(cur.speaker)
    THEN Append(final_segments,
                [ id |-> Len(final_segments) + 1,
                  speaker |-> cur.speaker[1],
                  timestamp |-> format_timestamp(cur.start),
                  text |-> cur.texts,
                  start |-> cur.start,
                  end |-> cur.end ])
    ELSE final_segments

RECURSIVE Coalesce(_, _, _, _)
Coalesce(merged, n, final_segments, cur) ==
    IF n > Len(merged)
    THEN FlushCurrent(final_segments, cur)
    ELSE LET seg == merged[n]
         IN  IF Some(seg.speaker) = cur.speaker
             THEN Coalesce(merged, n + 1, final_segments,
                           [cur EXCEPT !.texts = cur.texts \o seg.text,
                                       !.end = seg.end])
             ELSE Coalesce(merged, n + 1, FlushCurrent(final_segments, cur),
                           [ speaker |-> Some(seg.speaker),
                             texts |-> seg.text,
                             start |-> seg.start,
                             end |-> seg.end ])

merge_overlapping_chunks(all_chunk_segments) ==
    IF all_chunk_segments = <<>>
    THEN <<>>
    ELSE IF Len(all_chunk_segments) = 1
         THEN all_chunk_segments[1]
         ELSE Coalesce(DedupChunks(<<>>, all_chunk_segments, 1), 1, <<>>,
                       [speaker |-> None, texts |-> <<>>, start |-> 0, end |-> 0])

(***************************************************************************)
(* The environment: sessions, observers, the audio and what the provider   *)
(* can answer.                                                             *)
(***************************************************************************)
Sessions == {"s1"}
Subscribers == {"a", "b"}

\* what get_audio_duration can return for the session's audio (seconds)
Durations == {31, 3600, 4200, 6570}

\* speech in the recordings the model uses, session-absolute times; each
\* recording's utterances are in start order
Utterances ==
    << [speaker_id |-> "speaker 1", transcript |-> <<"hello">>, start |-> 2, end |-> 9],
       [speaker_id |-> "speaker 1", transcript |-> <<>>, start |-> 10, end |-> 14],
       [speaker_id |-> "speaker 1", transcript |-> <<"there">>, start |-> 15, end |-> 24],
       [speaker_id |-> "speaker 2", transcript |-> <<"um">>, start |-> 26, end |-> 26],
       [speaker_id |-> "speaker 2", transcript |-> <<"noon">>, start |-> 3500, end |-> 3590],
       [speaker_id |-> "speaker 1", transcript |-> <<"intro">>, start |-> 100, end |-> 110],
       [speaker_id |-> "speaker 1", transcript |-> <<"good", "day">>, start |-> 3275, end |-> 3285],
       [speaker_id |-> "speaker 2", transcript |-> <<"fine">>, start |-> 3315, end |-> 3325],
       [speaker_id |-> "speaker 2", transcript |-> <<"bye">>, start |-> 3400, end |-> 3410],
       [speaker_id |-> "speaker 1", transcript |-> <<"long", "talk">>, start |-> 3280, end |-> 3320],
       [speaker_id |-> " ", transcript |-> <<"hm">>, start |-> 4000, end |-> 4010],
       [speaker_id |-> "speaker 2", transcript |-> <<"end">>, start |-> 6545, end |-> 6555] >>

\* the recording (by its duration) each utterance belongs to
Recording(n) ==
    CASE n \in 1..4 -> 31
      [] n = 5 -> 3600
      [] n \in 6..9 -> 4200
      [] OTHER -> 6570

\* what the recording of the given duration says inside the window [lo, hi]
Candidates(duration, lo, hi) ==
    { n \in 1..Len(Utterances) :
          /\ Utterances[n].start >= lo
          /\ Utterances[n].end <= hi
          /\ Recording(n) = duration }

IndexSeqs(C) ==
    { q \in UNION { [1..m -> C] : m \in 0..MaxEntries } :
          \A a, b \in 1..Len(q) : a < b => q[a] < q[b] }

\* a provider entry carries times local to the submitted audio
EntryOf(u, offset) ==
    [ speaker_id |-> u.speaker_id,
      transcript |-> u.transcript,
      start_time_seconds |-> u.start - offset,
      end_time_seconds |-> u.end - offset ]

\* the results a job on the audio window [lo, hi] can produce
ProviderResults(duration, lo, hi) ==
    { [ entries |-> [n \in 1..Len(q) |-> EntryOf(Utterances[q[n]], lo)],
        transcript |-> <<>> ] : q \in IndexSeqs(Candidates(duration, lo, hi)) }
    \cup { [ entries |-> <<>>, transcript |-> <<"plain", "words">> ] }

\* what one status poll can answer
JobStates == {"COMPLETED", "FAILED", "PROCESSING", "Pending", "raise"}
InProgressStates == {"QUEUED", "PROCESSING", "IN_PROGRESS", "RUNNING", "ACCEPTED"}

\* how far the wall clock moves during one polling sleep and status call
ClockAdvances == {poll_interval, poll_interval + max_wait \div 2, poll_interval + max_wait}

(***************************************************************************)
(* Status events.  A message is [kind, n, cause]: the text's template, its *)
(* number and, for a wrapped error, the inner message's template.          *)
(***************************************************************************)
Msg(kind, n, cause) == [kind |-> kind, n |-> n, cause |-> cause]
Event(step, message, progress) ==
    [step |-> step, message |-> message, progress |-> progress]

WaitingEvent == Event("waiting", Msg("Waiting for transcription to start...", 0, ""), 0)
Terminal(ev) == ev.step \in {"completed", "failed"}

(***************************************************************************)
(* The transcript store (MongoDB collection `transcriptions`).             *)
(***************************************************************************)
RECURSIVE SpeakersOf(_)
SpeakersOf(segments) ==
    IF segments = <<>> THEN {}
    ELSE {segments[1].speaker} \cup SpeakersOf(Tail(segments))

transcription_to_mongo_document(segments) ==
    [ total_segments |-> Len(segments),
      segments |-> [ n \in 1..Len(segments) |->
                       [ speaker_id |-> segments[n].speaker,
                         text |-> segments[n].text,
                         start |-> segments[n].start,
                         end |-> segments[n].end ] ],
      speaker_names |-> [ sp \in SpeakersOf(segments) |-> sp ] ]

get_transcription_response(transcription_doc) ==
    [ n \in 1..Len(transcription_doc.segments) |->
        LET seg == transcription_doc.segments[n]
            display_name ==
                IF seg.speaker_id \in DOMAIN transcription_doc.speaker_names
                THEN transcription_doc.speaker_names[seg.speaker_id]
                ELSE seg.speaker_id
        IN  [ id |-> n,
              speaker |-> display_name,
              timestamp |-> << seg.start \div 3600,
                               (seg.start % 3600) \div 60,
                               seg.start % 60 >>,
              text |-> seg.text ] ]

\* TranscriptSegment(**seg): the response keeps id, speaker, timestamp, text
ResponseSegments(segments) ==
    [ n \in 1..Len(segments) |->
        [ id |-> segments[n].id,
          speaker |-> segments[n].speaker,
          timestamp |-> segments[n].timestamp,
          text |-> segments[n].text ] ]

\* a transcript an earlier process left in the store
StoredSample ==
    transcription_to_mongo_document(
        << [ id |-> 1, speaker |-> "Speaker 1", timestamp |-> format_timestamp(2),
             text |-> <<"old">>, start |-> 2, end |-> 9 ] >>)

(***************************************************************************)
(* Chunk planning (transcribe_audio_chunked).                              *)
(***************************************************************************)
\* fault: the number of whole chunk lengths in the audio
NumChunks_Whole(total_duration) == total_duration \div SARVAM_BATCH_MAX_DURATION

NumChunks(total_duration) ==
    (total_duration - CHUNK_OVERLAP)
        \div (SARVAM_BATCH_MAX_DURATION - CHUNK_OVERLAP) + 1

ChunkStart(i) == i * (SARVAM_BATCH_MAX_DURATION - CHUNK_OVERLAP)

\* the duration handed to extract_audio_chunk
ChunkSpan == SARVAM_BATCH_MAX_DURATION + CHUNK_OVERLAP

\* the extractions the loop of transcribe_audio_chunked asks for, in order
PlanWindows(total_duration) ==
    [ n \in 1..NumChunks(total_duration) |->
        [i |-> n - 1, start |-> ChunkStart(n - 1), span |-> ChunkSpan] ]

ChunkProgress(i, num_chunks) == 10 + (i * 80) \div num_chunks

\* the "-t" span is cut by ffmpeg at the end of the input
ChunkAudioEnd(i, total_duration) == Min(ChunkStart(i) + ChunkSpan, total_duration)

PollProgress(elapsed) == 40 + Min(40, elapsed \div 10)

ChunksDir(k) == <<"chunks_dir", k, -1>>
ChunkPath(k, i) == <<"chunk", k, i>>

(***************************************************************************)
(* State.                                                                  *)
(*   transcription_status  sessions.py: the process-wide status dict       *)
(*   store                 MongoDB `transcriptions`, one document a key    *)
(*   fs                    chunk directories and chunk files on disk       *)
(*   run                   the transcribe_session call on the event loop:  *)
(*                         its position, its locals and what it has done   *)
(*   subs                  the event_generator of each observer            *)
(*   last_published        the latest value the status dict was given, per *)
(*                         key                                             *)
(*   n_runs                requests counted against MaxRuns                *)
(***************************************************************************)
VARIABLES transcription_status, store, fs, run, subs, last_published, n_runs

vars == <<transcription_status, store, fs, run, subs, last_published, n_runs>>

Failure(message) == [success |-> FALSE, message |-> message, segments |-> None]
Success(message, segments) ==
    [success |-> TRUE, message |-> message, segments |-> Some(segments)]

HttpError(code) == [code |-> code, segments |-> <<>>]
HttpOk(segments) == [code |-> 200, segments |-> segments]

NewRun(k, regenerate) ==
    [ pc |-> "idle", key |-> k, regenerate |-> regenerate,
      duration |-> 0, chunked |-> FALSE, num_chunks |-> 0, i |-> 0,
      offset |-> 0, job_end |-> 0, all_chunk_segments |-> <<>>,
      elapsed |-> 0, poll_count |-> 0,
      result |-> None, response |-> None,
      \* what the call has done so far: trail is the status the key held
      \* before the latest publishing step followed by what that step published
      trail |-> <<>>, extracted |-> <<>>, jobs |-> <<>>, calls |-> <<>>,
      chunk_segments |-> <<>>, failed_chunk |-> -1, cleanup_error |-> FALSE,
      store_before |-> store[k], fs_before |-> fs,
      attached |-> { s \in Subscribers : subs[s].pc \in {"poll", "yield"} /\ subs[s].key = k } ]

NewSub ==
    [ pc |-> "idle", key |-> "", last_status |-> None,
      current_status |-> WaitingEvent,
      \* what it has yielded: each event with, as of the read, whether the
      \* key was in the status dict and the key's last_published
      yielded |-> <<>> ]

Init ==
    /\ transcription_status = [k \in Sessions |-> None]
    /\ store \in [Sessions -> {None, Some(StoredSample)}]
    /\ fs = {}
    /\ run = [ pc |-> "idle", key |-> "", regenerate |-> FALSE,
               duration |-> 0, chunked |-> FALSE, num_chunks |-> 0, i |-> 0,
               offset |-> 0, job_end |-> 0, all_chunk_segments |-> <<>>,
               elapsed |-> 0, poll_count |-> 0,
               result |-> None, response |-> None,
               trail |-> <<>>, extracted |-> <<>>, jobs |-> <<>>, calls |-> <<>>,
               chunk_segments |-> <<>>, failed_chunk |-> -1, cleanup_error |-> FALSE,
               store_before |-> None, fs_before |-> {}, attached |-> {} ]
    /\ subs = [s \in Subscribers |-> NewSub]
    /\ last_published = [k \in Sessions |-> None]
    /\ n_runs = 0

(***************************************************************************)
(* transcribe_session is `async def` and calls transcribe_audio (blocking  *)
(* provider calls, time.sleep) without awaiting anything: from its first   *)
(* line to its return it holds the event loop, and no other handler or     *)
(* generator of the process runs meanwhile.                                *)
(***************************************************************************)
EventLoopFree == run.pc \in {"idle", "done"}

\* update_status and the handler's direct writes: the key's single current event
SetStatus(status, k, ev) == [status EXCEPT ![k] = Some(ev)]

\* the run record after update_status was called with evs, one after another
WithEvents(r, evs) == [r EXCEPT !.trail = transcription_status[r.key] \o evs]

Publish(evs) ==
    /\ transcription_status' = SetStatus(transcription_status, run.key, evs[Len(evs)])
    /\ last_published' = [last_published EXCEPT ![run.key] = Some(evs[Len(evs)])]

NoPublish == UNCHANGED <<transcription_status, last_published>>

(***************************************************************************)
(* transcribe_session, up to the call of transcribe_audio.                 *)
(***************************************************************************)
\* regenerate = False and the store holds the transcript: answer from it
CacheHit(k) ==
    /\ EventLoopFree
    /\ store[k] # None
    /\ run' = [NewRun(k, FALSE) EXCEPT
                 !.pc = "done",
                 !.response = Some(HttpOk(get_transcription_response(store[k][1])))]
    /\ UNCHANGED <<transcription_status, store, fs, subs, last_published, n_runs>>

\* no session row, no audio path or no audio file: 404 / 400
RejectRequest(k, regenerate) ==
    /\ EventLoopFree
    /\ regenerate \/ store[k] = None
    /\ run' = [NewRun(k, regenerate) EXCEPT
                 !.pc = "done", !.response = Some(HttpError(404))]
    /\ UNCHANGED <<transcription_status, store, fs, subs, last_published, n_runs>>

\* lookup_ok = FALSE: the MongoDB lookup raised, which is logged and ignored
StartRun(k, regenerate, lookup_ok) ==
    /\ EventLoopFree
    /\ n_runs < MaxRuns
    /\ regenerate \/ store[k] = None \/ ~lookup_ok
    /\ LET ev == Event("starting", Msg("Initializing transcription...", 0, ""), 0)
       IN  /\ run' = [NewRun(k, regenerate) EXCEPT
                        !.pc = "transcribe_audio", !.trail = <<ev>>]
           /\ transcription_status' = SetStatus(transcription_status, k, ev)
           /\ last_published' = [last_published EXCEPT ![k] = Some(ev)]
    /\ n_runs' = n_runs + 1
    /\ UNCHANGED <<store, fs, subs>>

\* fault: an exception raised inside transcribe_audio reaches its caller
Caught_Escapes(r, cause) == [r EXCEPT !.pc = "raised"]

\* transcribe_audio's `except Exception as e`: what is raised inside it is
\* returned as a failure
Caught(r, cause) ==
    [r EXCEPT !.pc = "session_result",
              !.result = Some(Failure(Msg("Transcription failed", 0, cause)))]

(***************************************************************************)
(* transcribe_audio: key, duration probe, single job or chunked.           *)
(*   probed = 0 stands for get_audio_duration returning None.              *)
(***************************************************************************)
TranscribeAudio(api_key_set, probed) ==
    /\ run.pc = "transcribe_audio"
    /\ LET analyzing == Event("analyzing", Msg("Audio duration", probed, ""), 5)
           uploading == Event("uploading", Msg("Submitting to Sarvam Batch API...", 0, ""), 10)
           chunking == Event("chunking", Msg("chunking required", probed, ""), 5)
           splitting == Event("chunking", Msg("Splitting into chunks", NumChunks(probed), ""), 10)
       IN  IF ~api_key_set
           THEN /\ run' = Caught(run, "SARVAM_API_KEY environment variable not set")
                /\ NoPublish
                /\ UNCHANGED fs
           ELSE IF probed = 0
           THEN /\ run' = [run EXCEPT
                             !.pc = "session_result",
                             !.result = Some(Failure(Msg("Failed to get audio duration", 0, "")))]
                /\ NoPublish
                /\ UNCHANGED fs
           ELSE IF probed <= CHUNKING_THRESHOLD
           THEN /\ run' = [WithEvents(run, <<analyzing, uploading>>) EXCEPT
                             !.pc = "batch_create", !.duration = probed,
                             !.chunked = FALSE, !.offset = 0, !.job_end = probed]
                /\ Publish(<<analyzing, uploading>>)
                /\ UNCHANGED fs
           ELSE /\ run' = [WithEvents(run, <<analyzing, chunking, splitting>>) EXCEPT
                             !.pc = "extract", !.duration = probed,
                             !.chunked = TRUE, !.num_chunks = NumChunks(probed),
                             !.i = 0]
                /\ Publish(<<analyzing, chunking, splitting>>)
                /\ fs' = fs \cup {ChunksDir(run.key)}
    /\ UNCHANGED <<store, subs, n_runs>>

(***************************************************************************)
(* transcribe_audio_chunked, loop body up to the chunk's job: extract      *)
(* chunk i.  On failure ffmpeg may or may not have left a partial file.    *)
(***************************************************************************)
ExtractChunk(extracted_ok, file_written) ==
    /\ run.pc = "extract"
    /\ LET chunk_start == ChunkStart(run.i)
           request == [i |-> run.i, start |-> chunk_start, span |-> ChunkSpan]
           processing == Event("processing", Msg("Transcribing chunk", run.i + 1, ""),
                               ChunkProgress(run.i, run.num_chunks))
       IN  IF extracted_ok
           THEN /\ file_written
                /\ run' = [WithEvents(run, <<processing>>) EXCEPT
                             !.pc = "batch_create",
                             !.extracted = Append(@, request),
                             !.offset = chunk_start,
                             !.job_end = ChunkAudioEnd(run.i, run.duration)]
                /\ Publish(<<processing>>)
                /\ fs' = fs \cup {ChunkPath(run.key, run.i)}
           ELSE /\ run' = [run EXCEPT
                             !.pc = "session_result",
                             !.extracted = Append(@, request),
                             !.failed_chunk = run.i,
                             !.result = Some(Failure(Msg("Failed to extract chunk", run.i,
                                                         "FFmpeg error")))]
                /\ NoPublish
                /\ fs' = IF file_written THEN fs \cup {ChunkPath(run.key, run.i)} ELSE fs
    /\ UNCHANGED <<store, subs, n_runs>>

(***************************************************************************)
(* What the caller of transcribe_audio_batch does with its result:         *)
(* transcribe_audio returns it as it is; transcribe_audio_chunked returns  *)
(* a failure at once, and otherwise collects the segments and goes on to   *)
(* the next chunk, or to the cleanup after the last one.                   *)
(***************************************************************************)
\* fault: the latest chunk's segments are put in front of the earlier ones
AfterChunk_Prepend(r, segments) ==
    LET collected == [r EXCEPT
                        !.all_chunk_segments =
                            IF segments # <<>> THEN <<segments>> \o @ ELSE @,
                        !.chunk_segments = Append(@, segments)]
    IN  IF r.i < r.num_chunks - 1
        THEN [collected EXCEPT !.i = r.i + 1, !.pc = "extract"]
        ELSE [collected EXCEPT !.pc = "chunk_cleanup"]

\* the chunk loop after a successful chunk job
AfterChunk(r, segments) ==
    LET collected == [r EXCEPT
                        !.all_chunk_segments =
                            IF segments # <<>> THEN Append(@, segments) ELSE @,
                        !.chunk_segments = Append(@, segments)]
    IN  IF r.i < r.num_chunks - 1
        THEN [collected EXCEPT !.i = r.i + 1, !.pc = "extract"]
        ELSE [collected EXCEPT !.pc = "chunk_cleanup"]

\* fault: a failed chunk job is passed over and the loop goes on
AfterFailedChunk_GoOn(r, result) ==
    [AfterChunk(r, <<>>) EXCEPT !.failed_chunk = r.i]

\* the chunk loop after a failed chunk job
AfterFailedChunk(r, result) ==
    [r EXCEPT !.pc = "session_result",
              !.failed_chunk = r.i,
              !.result = Some(Failure(Msg("Failed to transcribe chunk", r.i,
                                          result.message.kind)))]

\* the locals of transcribe_audio_batch end with the call
Returned(r) == [r EXCEPT !.elapsed = 0, !.poll_count = 0, !.calls = <<>>]

BatchReturn(r, result) ==
    IF ~r.chunked
    THEN [Returned(r) EXCEPT !.pc = "session_result", !.result = Some(result)]
    ELSE IF ~result.success
         THEN AfterFailedChunk(Returned(r), result)
         ELSE AfterChunk(Returned(r), result.segments[1])

Call(r, name) == [r EXCEPT !.calls = Append(@, name)]

(***************************************************************************)
(* transcribe_audio_batch: create job, upload, start.                      *)
(***************************************************************************)
BatchCreate(ok) ==
    /\ run.pc = "batch_create"
    /\ LET evs == << Event("initializing", Msg("Connecting to Sarvam AI...", 0, ""), 5),
                     Event("uploading", Msg("Creating batch job...", 0, ""), 10) >>
           called == [WithEvents(run, evs) EXCEPT
                        !.calls = <<"create_job">>,
                        !.jobs = Append(@, run.offset)]
       IN  /\ run' = IF ok
                     THEN [called EXCEPT !.pc = "batch_upload"]
                     ELSE BatchReturn(called, Failure(Msg("Batch API error", 0, "create_job")))
           /\ Publish(evs)
    /\ UNCHANGED <<store, fs, subs, n_runs>>

BatchUpload(ok) ==
    /\ run.pc = "batch_upload"
    /\ LET evs == << Event("uploading", Msg("Uploading", 0, ""), 20) >>
           called == Call(WithEvents(run, evs), "upload_files")
       IN  /\ run' = IF ok
                     THEN [called EXCEPT !.pc = "batch_start"]
                     ELSE BatchReturn(called, Failure(Msg("Batch API error", 0, "upload_files")))
           /\ Publish(evs)
    /\ UNCHANGED <<store, fs, subs, n_runs>>

BatchStart(ok) ==
    /\ run.pc = "batch_start"
    /\ LET starting == Event("processing", Msg("Starting transcription...", 0, ""), 30)
           waiting == Event("processing", Msg("Processing audio", 0, ""), 40)
       IN  IF ok
           THEN /\ run' = [Call(WithEvents(run, <<starting, waiting>>), "start") EXCEPT
                             !.pc = "batch_poll", !.elapsed = 0, !.poll_count = 0]
                /\ Publish(<<starting, waiting>>)
           ELSE /\ run' = BatchReturn(Call(WithEvents(run, <<starting>>), "start"),
                                      Failure(Msg("Batch API error", 0, "start")))
                /\ Publish(<<starting>>)
    /\ UNCHANGED <<store, fs, subs, n_runs>>

(***************************************************************************)
(* transcribe_audio_batch: one iteration of the polling loop.  poll_count  *)
(* counts the iterations; each but a timed-out one calls get_status.  The  *)
(* loop's clock is not read again once the loop is left.                   *)
(***************************************************************************)
\* job_state.upper() on the states the model uses
Upper(job_state) ==
    CASE job_state = "Completed" -> "COMPLETED"
      [] job_state = "Pending" -> "PENDING"
      [] OTHER -> job_state

\* the sleeps the model lets a job take: after MaxPolls polls the wall clock
\* has gone past max_wait
Advances(poll_count) ==
    IF poll_count >= MaxPolls
    THEN {poll_interval + max_wait}
    ELSE ClockAdvances

\* fault: the loop never gives up
TimedOut_Never(elapsed) == FALSE

TimedOut(elapsed) == elapsed > max_wait

\* the loop cannot pass these values: elapsed is tested against max_wait
\* before every sleep, and Advances ends the short sleeps after MaxPolls
ElapsedCap == 2 * (poll_interval + max_wait)
PollCountCap == MaxPolls + 2

\* a status poll as the call log keeps it: the polls of the loop are not
\* logged unless they answer FAILED or a state the loop does not know,
\* those after the loop are
AnswersFailed(job_state) == job_state \in {"FAILED", "Failed", "failed"}
AnswersUnknown(job_state) ==
    /\ job_state # "raise"
    /\ Upper(job_state) \notin {"COMPLETED", "FAILED"} \cup InProgressStates

\* fault: a state the loop does not know ends the job
AfterUnknownState_Fatal(r) ==
    BatchReturn(r, Failure(Msg("Unknown job status", 0, "")))

\* the loop's else branch: sleep one poll interval (done by the caller) and
\* poll again
AfterUnknownState(r) == Call(r, "get_status:unknown")

StatusCall(job_state) ==
    IF AnswersFailed(job_state) THEN "get_status:FAILED"
    ELSE IF job_state # "raise" /\ Upper(job_state) = "COMPLETED"
    THEN "get_status:COMPLETED"
    ELSE "get_status"

\* the loop's own bookkeeping ends with the loop
LoopLeft(r) ==
    [r EXCEPT !.elapsed = 0, !.poll_count = 0,
              !.calls = SelectSeq(@, LAMBDA name : name # "get_status:unknown")]

BatchPoll(job_state, advance) ==
    /\ run.pc = "batch_poll"
    /\ LET poll_count == Min(run.poll_count + 1, PollCountCap)
           counted == [run EXCEPT !.poll_count = poll_count]
           polled == IF AnswersFailed(job_state)
                     THEN Call(counted, StatusCall(job_state))
                     ELSE counted
           slept == [polled EXCEPT !.elapsed = Min(run.elapsed + advance, ElapsedCap)]
           progress == Event("processing", Msg("Processing...", run.elapsed, ""),
                             PollProgress(run.elapsed))
       IN  IF TimedOut(run.elapsed)
           THEN /\ run' = BatchReturn(counted,
                              Failure(Msg("Transcription timed out", run.elapsed, "")))
                /\ NoPublish
           ELSE /\ advance \in Advances(poll_count)
                /\ IF job_state = "raise"
                   THEN /\ run' = slept
                        /\ NoPublish
                   ELSE IF Upper(job_state) = "COMPLETED"
                   THEN /\ run' = [LoopLeft(polled) EXCEPT !.pc = "batch_verify"]
                        /\ NoPublish
                   ELSE IF Upper(job_state) = "FAILED"
                   THEN /\ run' = BatchReturn(polled, Failure(Msg("Batch job failed", 0, "")))
                        /\ NoPublish
                   ELSE IF Upper(job_state) \in InProgressStates
                   THEN /\ run' = WithEvents(slept, <<progress>>)
                        /\ Publish(<<progress>>)
                   ELSE /\ run' = AfterUnknownState(slept)
                        /\ NoPublish
    /\ UNCHANGED <<store, fs, subs, n_runs>>

(***************************************************************************)
(* transcribe_audio_batch: after the loop saw COMPLETED and slept          *)
(* 2 s, check the state again, and once more 5 s later.                    *)
(***************************************************************************)
\* fault: whatever the check after the loop answers, the results are fetched
StillCompleted_Any(final_state) == TRUE

\* `final_state.upper() != "COMPLETED"` negated
StillCompleted(final_state) == Upper(final_state) = "COMPLETED"

BatchVerify(first, second) ==
    /\ run.pc = "batch_verify"
    /\ LET once == Call(run, StatusCall(first))
           twice == Call(once, StatusCall(second))
       IN  run' =
             IF first = "raise"
             THEN BatchReturn(once, Failure(Msg("Batch API error", 0, "get_status")))
             ELSE IF StillCompleted(first)
             THEN [once EXCEPT !.pc = "batch_fetch"]
             ELSE IF second = "raise"
             THEN BatchReturn(twice, Failure(Msg("Batch API error", 0, "get_status")))
             ELSE IF StillCompleted(second)
             THEN [twice EXCEPT !.pc = "batch_fetch"]
             ELSE BatchReturn(twice, Failure(Msg("Job stuck in state", 0, second)))
    /\ NoPublish
    /\ UNCHANGED <<store, fs, subs, n_runs>>

(***************************************************************************)
(* transcribe_audio_batch: get_file_results and download_outputs.          *)
(*   fetched:  "raise", "no_successful" or "ok"                            *)
(*   download: "none" (the result is used as it is), "ok", "retry_ok"      *)
(*             (first download raised, the second did not), "fallback"     *)
(*             (both raised, or no JSON file: the result is used as it is) *)
(***************************************************************************)
FetchOutcomes == {"raise", "no_successful", "ok"}
DownloadOutcomes == {"none", "ok", "retry_ok", "fallback"}

DownloadCalls(download) ==
    CASE download = "none" -> <<>>
      [] download = "ok" -> <<"download_outputs">>
      [] download = "retry_ok" -> <<"download_outputs:raise", "download_outputs">>
      [] OTHER -> <<"download_outputs:raise", "download_outputs:raise">>

BatchFetch(fetched, download) ==
    /\ run.pc = "batch_fetch"
    /\ LET evs == << Event("finalizing", Msg("Extracting transcription results...", 0, ""), 85) >>
           called == Call(WithEvents(run, evs), "get_file_results")
       IN  /\ run' =
                 IF fetched = "raise"
                 THEN BatchReturn(called, Failure(Msg("Failed to extract results", 0, "")))
                 ELSE IF fetched = "no_successful"
                 THEN BatchReturn(called, Failure(Msg("No successful transcriptions", 0, "")))
                 ELSE [called EXCEPT !.pc = "batch_transform",
                                     !.calls = @ \o DownloadCalls(download)]
           /\ Publish(evs)
    /\ UNCHANGED <<store, fs, subs, n_runs>>

(***************************************************************************)
(* transcribe_audio_batch: transform the result (the downloaded JSON, or   *)
(* the file result itself) and return.                                     *)
(*   well_formed = FALSE: the result is not the dict the transform reads,  *)
(*   and the transform raises.                                             *)
(***************************************************************************)
BatchTransform(well_formed, sdk_result) ==
    /\ run.pc = "batch_transform"
    /\ LET diarization == Event("finalizing", Msg("Processing speaker diarization...", 0, ""), 90)
           segments == transform_sarvam_sdk_response(sdk_result, run.offset)
           completed == Event("completed", Msg("Transcription complete", Len(segments), ""), 100)
       IN  IF well_formed
           THEN /\ run' = BatchReturn(WithEvents(run, <<diarization, completed>>),
                                      Success(Msg("Transcription successful", 0, ""), segments))
                /\ Publish(<<diarization, completed>>)
           ELSE /\ run' = BatchReturn(WithEvents(run, <<diarization>>),
                                      Failure(Msg("Failed to transform response", 0, "")))
                /\ Publish(<<diarization>>)
    /\ UNCHANGED <<store, fs, subs, n_runs>>

(***************************************************************************)
(* transcribe_audio_chunked after the loop: remove the chunk files and the *)
(* directory, then merge.                                                  *)
(*   cleanup: "ok"; "error_then_ok" (an unlink or the rmdir raised, the    *)
(*   handler's second cleanup went through, the error is re-raised);       *)
(*   "error_error" (the handler's cleanup raised too).  transcribe_audio   *)
(*   turns what is raised into a failure result.                           *)
(***************************************************************************)
CleanupOutcomes == {"ok", "error_then_ok", "error_error"}

\* chunks_dir.glob("*.wav") unlinked, chunks_dir removed
RemoveChunks(files, k) ==
    { f \in files : ~(f[1] \in {"chunk", "chunks_dir"} /\ f[2] = k) }

ChunkCleanup(cleanup) ==
    /\ run.pc = "chunk_cleanup"
    /\ LET merged_segments == merge_overlapping_chunks(run.all_chunk_segments)
           merging == Event("finalizing", Msg("Merging chunks", Len(run.all_chunk_segments), ""), 90)
           completed == Event("completed", Msg("Completed", Len(merged_segments), ""), 100)
       IN  IF cleanup # "ok"
           THEN /\ run' = [Caught(run, "cleanup") EXCEPT !.cleanup_error = TRUE]
                /\ fs' = IF cleanup = "error_then_ok" THEN RemoveChunks(fs, run.key) ELSE fs
                /\ NoPublish
           ELSE IF run.all_chunk_segments = <<>>
           THEN /\ run' = [run EXCEPT
                             !.pc = "session_result",
                             !.result = Some(Failure(Msg(
                                 "No segments generated from chunked transcription", 0, "")))]
                /\ fs' = RemoveChunks(fs, run.key)
                /\ NoPublish
           ELSE /\ run' = [WithEvents(run, <<merging, completed>>) EXCEPT
                             !.pc = "session_result",
                             !.result = Some(Success(Msg("Transcribed chunks successfully",
                                                         run.num_chunks, ""),
                                                     merged_segments))]
                /\ fs' = RemoveChunks(fs, run.key)
                /\ Publish(<<merging, completed>>)
    /\ UNCHANGED <<store, subs, n_runs>>

(***************************************************************************)
(* transcribe_session after transcribe_audio returned: publish the         *)
(* outcome, save to the store, answer.                                     *)
(***************************************************************************)
SessionResult(save_ok) ==
    /\ run.pc = "session_result"
    /\ LET result == run.result[1]
           segments == result.segments[1]
           failed == Event("failed", result.message, 0)
           save_failed == Event("failed", Msg("Failed to save to database", 0, ""), 0)
           completed == Event("completed", Msg("Transcription complete", Len(segments), ""), 100)
       IN  IF ~result.success
           THEN /\ run' = [WithEvents(run, <<failed>>) EXCEPT
                             !.pc = "done", !.response = Some(HttpError(500))]
                /\ Publish(<<failed>>)
                /\ UNCHANGED store
           ELSE IF ~save_ok
           THEN /\ run' = [WithEvents(run, <<save_failed>>) EXCEPT
                             !.pc = "done", !.response = Some(HttpError(500))]
                /\ Publish(<<save_failed>>)
                /\ UNCHANGED store
           ELSE /\ run' = [WithEvents(run, <<completed>>) EXCEPT
                             !.pc = "done",
                             !.response = Some(HttpOk(ResponseSegments(segments)))]
                /\ Publish(<<completed>>)
                /\ store' = [store EXCEPT ![run.key] =
                                Some(transcription_to_mongo_document(segments))]
    /\ UNCHANGED <<fs, subs, n_runs>>

(***************************************************************************)
(* transcribe_status_stream / event_generator.  The generator runs on the  *)
(* event loop; it is suspended at its `yield` (while the event is sent)    *)
(* and in its sleep.                                                       *)
(***************************************************************************)
SubAttach(s, k) ==
    /\ EventLoopFree
    /\ subs[s].pc = "idle"
    /\ subs' = [subs EXCEPT ![s] = [NewSub EXCEPT !.pc = "poll", !.key = k]]
    /\ UNCHANGED <<transcription_status, store, fs, run, last_published, n_runs>>

\* fault: the generator yields its default event whatever the key holds
CurrentStatus_Default(status, k) == WaitingEvent

\* transcription_status.get(status_key, {"step": "waiting", ...})
CurrentStatus(status, k) ==
    IF status[k] = None THEN WaitingEvent ELSE status[k][1]

\* fault: the generator leaves the key in place when it ends
ClearStatus_Keep(status, k) == status

\* `if status_key in transcription_status: del transcription_status[status_key]`
ClearStatus(status, k) == [status EXCEPT ![k] = None]

\* fault: the generator yields at every poll
StatusChanged_Always(current_status, last_status) == TRUE

\* `if current_status != last_status`
StatusChanged(current_status, last_status) == Some(current_status) # last_status

\* from the top of the loop to the yield, to the sleep, or out of the loop
SubPoll(s) ==
    /\ EventLoopFree
    /\ subs[s].pc = "poll"
    /\ LET current_status == CurrentStatus(transcription_status, subs[s].key)
       IN  IF StatusChanged(current_status, subs[s].last_status)
           THEN /\ subs' = [subs EXCEPT ![s].pc = "yield",
                                        ![s].current_status = current_status,
                                        ![s].yielded = Append(@,
                                            [ event |-> current_status,
                                              present |-> transcription_status[subs[s].key] # None,
                                              latest |-> last_published[subs[s].key] ])]
                /\ UNCHANGED transcription_status
           ELSE IF Terminal(current_status)
           THEN /\ subs' = [subs EXCEPT ![s].pc = "done",
                                        ![s].current_status = current_status]
                /\ transcription_status' = ClearStatus(transcription_status, subs[s].key)
           ELSE /\ subs' = [subs EXCEPT ![s].current_status = current_status]
                /\ UNCHANGED transcription_status
    /\ UNCHANGED <<store, fs, run, last_published, n_runs>>

\* from the yield to the sleep, or out of the loop and through the cleanup
SubResume(s) ==
    /\ EventLoopFree
    /\ subs[s].pc = "yield"
    /\ IF Terminal(subs[s].current_status)
       THEN /\ subs' = [subs EXCEPT ![s].pc = "done",
                                    ![s].last_status = Some(subs[s].current_status)]
            /\ transcription_status' = ClearStatus(transcription_status, subs[s].key)
       ELSE /\ subs' = [subs EXCEPT ![s].pc = "poll",
                                    ![s].last_status = Some(subs[s].current_status)]
            /\ UNCHANGED transcription_status
    /\ UNCHANGED <<store, fs, run, last_published, n_runs>>

Next ==
    \/ \E k \in Sessions : CacheHit(k)
    \/ \E k \in Sessions, regenerate \in BOOLEAN : RejectRequest(k, regenerate)
    \/ \E k \in Sessions, regenerate, lookup_ok \in BOOLEAN : StartRun(k, regenerate, lookup_ok)
    \/ \E api_key_set \in BOOLEAN, probed \in Durations \cup {0} :
           TranscribeAudio(api_key_set, probed)
    \/ \E extracted_ok, file_written \in BOOLEAN : ExtractChunk(extracted_ok, file_written)
    \/ \E ok \in BOOLEAN : BatchCreate(ok)
    \/ \E ok \in BOOLEAN : BatchUpload(ok)
    \/ \E ok \in BOOLEAN : BatchStart(ok)
    \/ \E job_state \in JobStates, advance \in ClockAdvances : BatchPoll(job_state, advance)
    \/ \E first, second \in JobStates : BatchVerify(first, second)
    \/ \E fetched \in FetchOutcomes, download \in DownloadOutcomes :
           BatchFetch(fetched, download)
    \/ \E well_formed \in BOOLEAN,
          sdk_result \in ProviderResults(run.duration, run.offset, run.job_end) :
           BatchTransform(well_formed, sdk_result)
    \/ \E cleanup \in CleanupOutcomes : ChunkCleanup(cleanup)
    \/ \E save_ok \in BOOLEAN : SessionResult(save_ok)
    \/ \E s \in Subscribers, k \in Sessions : SubAttach(s, k)
    \/ \E s \in Subscribers : SubPoll(s)
    \/ \E s \in Subscribers : SubResume(s)

Spec == Init /\ [][Next]_vars

(***************************************************************************)
(* One transcribe request on its own.  transcribe_audio is synchronous     *)
(* code on the thread that runs it: between its call and its return it     *)
(* takes its next step whenever it has one (every provider call answers or *)
(* raises, every sleep ends).                                              *)
(***************************************************************************)
TranscribeStep ==
    \/ \E api_key_set \in BOOLEAN, probed \in Durations \cup {0} :
           TranscribeAudio(api_key_set, probed)
    \/ \E extracted_ok, file_written \in BOOLEAN : ExtractChunk(extracted_ok, file_written)
    \/ \E ok \in BOOLEAN : BatchCreate(ok)
    \/ \E ok \in BOOLEAN : BatchUpload(ok)
    \/ \E ok \in BOOLEAN : BatchStart(ok)
    \/ \E job_state \in JobStates, advance \in ClockAdvances : BatchPoll(job_state, advance)
    \/ \E first, second \in JobStates : BatchVerify(first, second)
    \/ \E fetched \in FetchOutcomes, download \in DownloadOutcomes :
           BatchFetch(fetched, download)
    \/ \E well_formed \in BOOLEAN,
          sdk_result \in ProviderResults(run.duration, run.offset, run.job_end) :
           BatchTransform(well_formed, sdk_result)
    \/ \E cleanup \in CleanupOutcomes : ChunkCleanup(cleanup)

RunNext ==
    \/ \E k \in Sessions, regenerate, lookup_ok \in BOOLEAN : StartRun(k, regenerate, lookup_ok)
    \/ TranscribeStep
    \/ \E save_ok \in BOOLEAN : SessionResult(save_ok)

RunSpec == Init /\ [][RunNext]_vars /\ WF_vars(TranscribeStep)

(***************************************************************************)
(* Properties.                                                             *)
(***************************************************************************)
Last(q) == q[Len(q)]

\* transcribe_audio has returned (success, message, segments)
RunReturned == run.result # None
RunSucceeded == RunReturned /\ run.result[1].success
ReturnedSegments == run.result[1].segments[1]

\* the request ended with the key's `failed` event and HTTP 500
RunFailed == run.pc = "done" /\ RunReturned /\ run.response = Some(HttpError(500))

RECURSIVE Words(_)
Words(segments) ==
    IF segments = <<>> THEN <<>>
    ELSE segments[1].text \o Words(Tail(segments))

\* how often the text stands in the words
TextCount(text, words) ==
    Cardinality({ n \in 1..(Len(words) - Len(text) + 1) :
                      SubSeq(words, n, n + Len(text) - 1) = text })

SameSpeech(a, b) ==
    /\ a.speaker = b.speaker
    /\ a.text = b.text
    /\ a.start = b.start
    /\ a.end = b.end

\* the audio both chunk i and chunk i + 1 were cut from
InBothWindows(seg, i) ==
    /\ seg.start >= ChunkStart(i + 1)
    /\ seg.end <= ChunkStart(i) + ChunkSpan

YieldedEvents(s) == { subs[s].yielded[n].event : n \in 1..Len(subs[s].yielded) }

(***************************************************************************)
(* C1: when two consecutive chunks both return the same segment (speaker,  *)
(* text, start, end) lying in the audio both windows cover, the transcript *)
(* a successful chunked run returns holds that segment's text once.        *)
(***************************************************************************)
C1_NoDoubleCounting ==
    (run.chunked /\ RunSucceeded) =>
        \A c \in 1..(Len(run.chunk_segments) - 1) :
            \A n \in 1..Len(run.chunk_segments[c]),
               m \in 1..Len(run.chunk_segments[c + 1]) :
                LET a == run.chunk_segments[c][n]
                    b == run.chunk_segments[c + 1][m]
                IN  (SameSpeech(a, b) /\ InBothWindows(a, c - 1)) =>
                        TextCount(a.text, Words(ReturnedSegments)) = 1

(***************************************************************************)
(* C2: once a chunked run has returned or raised, whatever the exit path,  *)
(* its chunk directory and every chunk file in it are gone from the disk.  *)
(***************************************************************************)
C2_ChunksRemovedOnExit ==
    (run.chunked /\ run.pc \in {"session_result", "done"}) =>
        RemoveChunks(fs, run.key) = fs

(***************************************************************************)
(* C3: when extraction or transcription of chunk i failed, no chunk after  *)
(* i was extracted or submitted, the run returned a failure without        *)
(* segments, and the session's stored transcript is what it was before.    *)
(***************************************************************************)
C3_AbortOnChunkFailure ==
    run.failed_chunk >= 0 =>
        /\ \A n \in 1..Len(run.extracted) : run.extracted[n].i <= run.failed_chunk
        /\ \A n \in 1..Len(run.jobs) : run.jobs[n] <= ChunkStart(run.failed_chunk)
        /\ RunReturned
        /\ ~run.result[1].success
        /\ run.result[1].segments = None
        /\ store[run.key] = run.store_before
        /\ run.response \in {None, Some(HttpError(500))}

\* a later chunk's provider job failed and the request has been answered
C3_Witness ==
    /\ run.failed_chunk >= 1
    /\ Len(run.jobs) = run.failed_chunk + 1
    /\ run.pc = "done"

(***************************************************************************)
(* C4: after a run that ended in failure, every subscriber attached to the *)
(* key for the whole run has `failed` as its last event; stated where it   *)
(* is decided: once the key is gone from the status dict no `failed` event *)
(* can reach a subscriber any more.                                        *)
(***************************************************************************)
C4_FailedIsLastEvent ==
    \A s \in Subscribers :
        ( /\ RunFailed
          /\ s \in run.attached
          /\ transcription_status[run.key] = None )
        => /\ subs[s].yielded # <<>>
           /\ Last(subs[s].yielded).event.step = "failed"

(***************************************************************************)
(* C5: once a subscriber has yielded a `completed` or `failed` event it    *)
(* yields nothing more and its only step is to end; and a stream ends only *)
(* after such an event, leaving the key absent from the status dict.       *)
(***************************************************************************)
C5_StreamEndsAtTerminalEvent ==
    [][ \A s \in Subscribers :
          /\ ( subs[s].yielded # <<>> /\ Terminal(Last(subs[s].yielded).event) )
             => /\ subs'[s].yielded = subs[s].yielded
                /\ subs'[s].pc \in {subs[s].pc, "done"}
          /\ ( subs[s].pc # "done" /\ subs'[s].pc = "done" )
             => /\ subs[s].yielded # <<>>
                /\ Terminal(Last(subs[s].yielded).event)
                /\ transcription_status'[subs[s].key] = None ]_vars

\* a stream has ended on a terminal event
C5_Witness ==
    \E s \in Subscribers :
        /\ subs[s].pc = "done"
        /\ Terminal(Last(subs[s].yielded).event)
        /\ transcription_status[subs[s].key] = None

(***************************************************************************)
(* C6: with two or more subscribers attached to a key when a terminal      *)
(* event is published, the key is still in the status dict as long as one  *)
(* of them has not been delivered the terminal event.                      *)
(***************************************************************************)
C6_KeyKeptUntilAllDelivered ==
    ( /\ run.pc = "done"
      /\ RunReturned
      /\ Cardinality(run.attached) >= 2
      /\ \E s \in run.attached : last_published[run.key][1] \notin YieldedEvents(s) )
    => transcription_status[run.key] # None

(***************************************************************************)
(* C7: over the status events one run publishes, progress never decreases  *)
(* from one event to the next.  run.trail is the event the key held before *)
(* the latest publishing step, followed by what that step published.       *)
(***************************************************************************)
C7_ProgressNeverDecreases ==
    \A n \in 1..(Len(run.trail) - 1) :
        run.trail[n].progress <= run.trail[n + 1].progress

(***************************************************************************)
(* C8, as stated: every event a subscriber yields was, when it was read,   *)
(* the latest value published for the key.                                 *)
(***************************************************************************)
C8_YieldedWerePublished ==
    \A s \in Subscribers :
        \A n \in 1..Len(subs[s].yielded) :
            subs[s].yielded[n].latest = Some(subs[s].yielded[n].event)

(***************************************************************************)
(* C8, amended: every event a subscriber yields is the latest value        *)
(* published for the key if the key was in the status dict when it was     *)
(* read, and the generator's default `waiting` event if it was not.        *)
(***************************************************************************)
C8_YieldedLatestOrDefault ==
    \A s \in Subscribers :
        \A n \in 1..Len(subs[s].yielded) :
            LET y == subs[s].yielded[n]
            IN  IF y.present
                THEN y.latest = Some(y.event)
                ELSE y.event = WaitingEvent

\* a subscriber yielded the default event and then a published one
C8_Witness ==
    \E s \in Subscribers :
        /\ Len(subs[s].yielded) >= 2
        /\ ~subs[s].yielded[1].present
        /\ subs[s].yielded[2].present
        /\ subs[s].yielded[2].event.step \in {"completed", "failed"}

(***************************************************************************)
(* C9: the N segments a successful transcribe_audio returns carry the ids  *)
(* 1, 2, ..., N in order.                                                  *)
(***************************************************************************)
C9_SequentialIds ==
    RunSucceeded =>
        \A n \in 1..Len(ReturnedSegments) : ReturnedSegments[n].id = n

(***************************************************************************)
(* C10: in the transcript a successful transcribe_audio returns, no two    *)
(* adjacent segments have the same speaker label.                          *)
(***************************************************************************)
C10_NoAdjacentSameSpeaker ==
    RunSucceeded =>
        \A n \in 1..(Len(ReturnedSegments) - 1) :
            ReturnedSegments[n].speaker # ReturnedSegments[n + 1].speaker

Sorted(segments) ==
    \A n \in 1..(Len(segments) - 1) : segments[n].start <= segments[n + 1].start

(***************************************************************************)
(* C11: when every chunk's own segment list is sorted by start time, the   *)
(* start times of the merged transcript a chunked run returns never        *)
(* decrease from one segment to the next.                                  *)
(***************************************************************************)
C11_StartsNonDecreasing ==
    ( /\ run.chunked
      /\ RunSucceeded
      /\ \A c \in 1..Len(run.chunk_segments) : Sorted(run.chunk_segments[c]) )
    => Sorted(ReturnedSegments)

\* every provider job of the run ended well and gave an empty segment list
AllJobsEmpty ==
    IF run.chunked
    THEN /\ Len(run.chunk_segments) = run.num_chunks
         /\ \A c \in 1..Len(run.chunk_segments) : run.chunk_segments[c] = <<>>
    ELSE RunSucceeded /\ ReturnedSegments = <<>>

(***************************************************************************)
(* C12: a run whose every chunk, or whose single job, gave an empty        *)
(* segment list returns a failure, never a success with an empty           *)
(* transcript.                                                             *)
(***************************************************************************)
C12_NoEmptySuccess ==
    (RunReturned /\ AllJobsEmpty) => ~run.result[1].success

CoversAudio(windows, total_duration) ==
    /\ windows # <<>>
    /\ windows[1].start = 0
    /\ \A n \in 1..Len(windows) : windows[n].start < total_duration
    /\ \A n \in 1..(Len(windows) - 1) :
          /\ windows[n].start < windows[n + 1].start
          /\ windows[n + 1].start <= windows[n].start + windows[n].span
    /\ Last(windows).start + Last(windows).span >= total_duration

(***************************************************************************)
(* C14: for a total duration T > 3600 the windows the chunked run          *)
(* processes are in ascending start order, each starts strictly before T,  *)
(* and their union covers [0, T] without a gap.  Stated of the extractions *)
(* a run has made once its loop is through, and, where a run probes the    *)
(* duration, of the plan of every T up to MaxPlanDuration.                 *)
(***************************************************************************)
C14_WindowsCoverAudio ==
    /\ run.pc = "chunk_cleanup" =>
          /\ run.extracted = PlanWindows(run.duration)
          /\ CoversAudio(run.extracted, run.duration)
    /\ run.pc = "transcribe_audio" =>
          \A T \in 3601..MaxPlanDuration : CoversAudio(PlanWindows(T), T)

\* a run on the 6570 s recording has extracted its three windows
C14_Witness ==
    /\ run.pc = "chunk_cleanup"
    /\ run.duration = 6570
    /\ Len(run.extracted) = 3

(***************************************************************************)
(* C15: consecutive windows of a chunked run overlap by exactly            *)
(* CHUNK_OVERLAP seconds: the end of window i (where the extracted audio   *)
(* ends) minus the start of window i + 1 is 30.                            *)
(***************************************************************************)
C15_OverlapIsChunkOverlap ==
    \A n \in 1..(Len(run.extracted) - 1) :
        ChunkAudioEnd(run.extracted[n].i, run.duration)
            - run.extracted[n + 1].start = CHUNK_OVERLAP

\* the maximum chunk count the planner is configured with
MAX_CHUNKS == 2

(***************************************************************************)
(* C16: when the computed chunk count exceeds the configured maximum, the  *)
(* run fails with a plan-too-large error before any chunk is extracted or  *)
(* any provider job is created.                                            *)
(***************************************************************************)
C16_PlanTooLarge ==
    (run.chunked /\ run.num_chunks > MAX_CHUNKS) =>
        /\ run.extracted = <<>>
        /\ run.jobs = <<>>
        /\ run.pc \in {"session_result", "done"}
        /\ ~run.result[1].success

\* the error a failure result reports: a chunked run wraps the job's error
FailureKind(result) ==
    IF result.message.kind = "Failed to transcribe chunk"
    THEN result.message.cause
    ELSE result.message.kind

\* a provider job has been created and transcribe_audio_batch is not through
JobInProgress ==
    run.pc \in {"batch_upload", "batch_start", "batch_poll", "batch_verify",
                "batch_fetch", "batch_transform"}

(***************************************************************************)
(* C17: when the polling loop finds the elapsed wait above max_wait, its   *)
(* only step is to give up: no further poll, no other call on the job, no  *)
(* new job and no further extraction; the run returns the timed-out error, *)
(* and no other exit of the loop (a FAILED job among them) reports that    *)
(* error.                                                                  *)
(***************************************************************************)
C17_TimedOutIsTerminal ==
    [][ run.pc = "batch_poll" =>
          IF run.elapsed > max_wait
          THEN /\ run'.pc = "session_result"
               /\ ~run'.result[1].success
               /\ FailureKind(run'.result[1]) = "Transcription timed out"
               /\ run'.jobs = run.jobs
               /\ run'.extracted = run.extracted
               /\ run'.failed_chunk = IF run.chunked THEN run.i ELSE -1
          ELSE run'.result # None =>
                   FailureKind(run'.result[1]) # "Transcription timed out" ]_vars

\* the job of a later chunk timed out and the request was answered with 500
C17_Witness ==
    /\ RunFailed
    /\ run.failed_chunk >= 1
    /\ FailureKind(run.result[1]) = "Transcription timed out"
    /\ transcription_status[run.key] # None
    /\ transcription_status[run.key][1].message = run.result[1].message

(***************************************************************************)
(* C18: once a status poll has answered FAILED for a job, no further call  *)
(* is made on that job and the run returns the failure without creating    *)
(* another job.                                                            *)
(***************************************************************************)
C18_FailedIsTerminal ==
    /\ JobInProgress =>
          \A n \in 1..Len(run.calls) : run.calls[n] # "get_status:FAILED"
    /\ ( RunReturned /\ FailureKind(run.result[1]) = "Batch job failed" ) =>
          /\ ~run.result[1].success
          /\ run.result[1].segments = None
          /\ Len(run.jobs) = IF run.chunked THEN run.failed_chunk + 1 ELSE 1

(***************************************************************************)
(* C20: while a run waits in its polling sleep, a progress subscriber's    *)
(* loop can take its step.                                                 *)
(***************************************************************************)
C20_WaitingRunDoesNotBlock ==
    \A s \in Subscribers :
        ( /\ run.pc = "batch_poll"
          /\ run.poll_count >= 1
          /\ subs[s].pc = "poll" )
        => ENABLED SubPoll(s)

(***************************************************************************)
(* C19: every call of transcribe_audio returns, whatever the provider and  *)
(* the extractor do, and what it returns is (True, message, segment list)  *)
(* or (False, message, None); what is raised inside it comes out as a      *)
(* failure result.                                                         *)
(***************************************************************************)
C19_AlwaysReturns ==
    /\ [](run.pc = "transcribe_audio" => <>(run.pc = "session_result"))
    /\ [](RunReturned =>
            IF run.result[1].success
            THEN run.result[1].segments # None
            ELSE run.result[1].segments = None)

\* a call returned after its provider job never reached a terminal state
C19_Witness ==
    /\ run.pc = "session_result"
    /\ ~run.chunked
    /\ FailureKind(run.result[1]) = "Transcription timed out"


(***************************************************************************)
(* C22: the list handed to merge_overlapping_chunks holds the segment      *)
(* lists in ascending chunk index order (the non-empty results of chunk 0, *)
(* 1, 2, ... as they were returned), and chunk i+1 is extracted and        *)
(* submitted only after the job of chunk i has returned.                   *)
(***************************************************************************)
NonEmptyResults(chunk_segments) ==
    SelectSeq(chunk_segments, LAMBDA segments : segments # <<>>)

C22_MergeInputInIndexOrder ==
    run.chunked =>
        /\ run.all_chunk_segments = NonEmptyResults(run.chunk_segments)
        /\ \A n \in 1..Len(run.extracted) : run.extracted[n].i = n - 1
        /\ \A n \in 1..Len(run.jobs) : run.jobs[n] = ChunkStart(n - 1)
        /\ Len(run.jobs) <= Len(run.extracted)
        \* every chunk before the latest extracted one has returned its result
        /\ Len(run.extracted) <= Len(run.chunk_segments) + 1

C22_Witness ==
    /\ run.chunked
    /\ run.pc = "chunk_cleanup"
    /\ Len(run.all_chunk_segments) = 2
    /\ run.all_chunk_segments[1] # run.all_chunk_segments[2]
    /\ Len(run.extracted) = 3


(***************************************************************************)
(* C23: with regenerate false and a transcript stored for the session,     *)
(* transcribe_session answers with the stored transcript, creates no       *)
(* provider job, publishes no status event and does not write the store;   *)
(* with regenerate true the answer is never the stored transcript: a run   *)
(* is made and a successful answer is the run's result, which is then what *)
(* the store holds.                                                        *)
(***************************************************************************)
C23_CacheOrGenerate ==
    /\ (run.pc # "idle" /\ ~run.regenerate /\ run.store_before # None) =>
          /\ run.jobs = <<>>
          /\ run.trail = <<>>
          /\ store[run.key] = run.store_before
          /\ run.pc = "done"
          /\ run.response =
                Some(HttpOk(get_transcription_response(run.store_before[1])))
    /\ (run.pc = "done" /\ run.regenerate /\ run.response[1].code = 200) =>
          /\ RunSucceeded
          /\ run.response = Some(HttpOk(ResponseSegments(ReturnedSegments)))
          /\ store[run.key] =
                Some(transcription_to_mongo_document(ReturnedSegments))


(***************************************************************************)
(* C24: a request whose transcription succeeded answers 200 only with the  *)
(* transcript written to the store; when the write fails it answers with   *)
(* an error, the store is as it was, the status of the key is `failed`,    *)
(* and no `completed` event has been published for the run.                *)
(***************************************************************************)
C24_SuccessOnlyAfterSave ==
    (run.pc = "done" /\ RunSucceeded) =>
        IF run.response[1].code = 200
        THEN store[run.key] =
                Some(transcription_to_mongo_document(ReturnedSegments))
        ELSE /\ store[run.key] = run.store_before
             /\ transcription_status[run.key] # None
             /\ transcription_status[run.key][1].step = "failed"
             /\ \A n \in 1..Len(run.trail) : run.trail[n].step # "completed"


(***************************************************************************)
(* C25: a provider operation that raised ends its job with an error        *)
(* result: no job goes on after one of its provider calls has raised (the  *)
(* log of the job's calls is dropped when the job returns).                *)
(***************************************************************************)
CallRaised(name) == name = "download_outputs:raise"

C25_NoSilentRetry ==
    \A n \in 1..Len(run.calls) : ~CallRaised(run.calls[n])


(***************************************************************************)
(* C26: a failing cleanup (unlink of a chunk file, rmdir of the chunk      *)
(* directory) does not change the outcome of the run: with all chunks      *)
(* transcribed the run returns the merged transcript (or the "no segments" *)
(* failure when every chunk was empty), never the cleanup's error.         *)
(***************************************************************************)
C26_CleanupNeverChangesOutcome ==
    (run.cleanup_error /\ RunReturned) =>
        IF run.all_chunk_segments = <<>>
        THEN /\ ~RunSucceeded
             /\ run.result[1].message.kind =
                    "No segments generated from chunked transcription"
        ELSE /\ RunSucceeded
             /\ ReturnedSegments = merge_overlapping_chunks(run.all_chunk_segments)


(***************************************************************************)
(* C27: in a merge of two or more chunks, every maximal run of consecutive *)
(* retained segments with the same speaker label becomes exactly one       *)
(* output segment: the k-th run is the k-th output segment, its text the   *)
(* run's texts joined by single spaces, its start the first segment's      *)
(* start and its end the last segment's end.                               *)
(***************************************************************************)
\* the segments kept by the deduplication pass
Retained(all_chunk_segments) == DedupChunks(<<>>, all_chunk_segments, 1)

\* <<a, b>>: positions a..b of kept are a maximal run of one speaker label
MaximalRuns(kept) ==
    { r \in (1..Len(kept)) \X (1..Len(kept)) :
          /\ r[1] <= r[2]
          /\ \A n \in r[1]..r[2] : kept[n].speaker = kept[r[1]].speaker
          /\ r[1] > 1 => kept[r[1] - 1].speaker # kept[r[1]].speaker
          /\ r[2] < Len(kept) => kept[r[2] + 1].speaker # kept[r[2]].speaker }

RECURSIVE JoinedText(_, _, _)
JoinedText(kept, a, b) ==
    IF a > b THEN <<>> ELSE kept[a].text \o JoinedText(kept, a + 1, b)

RunIsOneSegment(kept, out, runs, r) ==
    LET k == Cardinality({ q \in runs : q[1] <= r[1] })
    IN  /\ k <= Len(out)
        /\ out[k].speaker = kept[r[1]].speaker
        /\ out[k].text = JoinedText(kept, r[1], r[2])
        /\ out[k].start = kept[r[1]].start
        /\ out[k].end = kept[r[2]].end

C27_RunsCoalesced ==
    (RunSucceeded /\ run.chunked /\ Len(run.all_chunk_segments) >= 2) =>
        LET kept == Retained(run.all_chunk_segments)
            out == ReturnedSegments
            runs == MaximalRuns(kept)
        IN  /\ Len(out) = Cardinality(runs)
            /\ \A r \in runs : RunIsOneSegment(kept, out, runs, r)


(***************************************************************************)
(* C28: in a merge, a segment of a chunk after the first is discarded only *)
(* if it starts before overlap_start + 1 (overlap_start: the end of the    *)
(* last merged segment when the chunk begins, minus CHUNK_OVERLAP) and its *)
(* word-set Jaccard similarity with one of the last three merged segments  *)
(* is above 0.8; a segment no more than 0.8 similar to each of them, or    *)
(* starting at or after overlap_start + 1, is kept; the segments of the    *)
(* first chunk are all kept.                                               *)
(***************************************************************************)
\* the merged list when chunk number k (from 1) begins
MergedAtChunk(all_chunk_segments, k) ==
    Retained(SubSeq(all_chunk_segments, 1, k - 1))

OverlapStartAtChunk(all_chunk_segments, k) ==
    LET merged == MergedAtChunk(all_chunk_segments, k)
    IN  (IF merged # <<>> THEN Last(merged).end ELSE 0) - CHUNK_OVERLAP

\* the merged list after the first n segments of chunk number k
MergedAtSegment(all_chunk_segments, k, n) ==
    AppendChunk(MergedAtChunk(all_chunk_segments, k),
                SubSeq(all_chunk_segments[k], 1, n),
                OverlapStartAtChunk(all_chunk_segments, k), 1)

JaccardAbove(a, b, tenths) ==
    LET A == WordSet(a)
        B == WordSet(b)
    IN  /\ A # {} /\ B # {}
        /\ 10 * Cardinality(A \cap B) > tenths * Cardinality(A \cup B)

SimilarToRecent(seg, merged) ==
    \E m \in 1..Len(merged) :
        /\ m > Len(merged) - 3
        /\ JaccardAbove(seg.text, merged[m].text, 8)

DiscardRule(all_chunk_segments, k, n) ==
    LET seg == all_chunk_segments[k][n]
        before == MergedAtSegment(all_chunk_segments, k, n - 1)
        after == MergedAtSegment(all_chunk_segments, k, n)
        candidate == seg.start < OverlapStartAtChunk(all_chunk_segments, k) + 1
    IN  IF candidate /\ SimilarToRecent(seg, before)
        THEN after = before
        ELSE after = Append(before, seg)

MergeHasRun ==
    /\ run.pc = "session_result"
    /\ RunSucceeded
    /\ run.chunked
    /\ Len(run.all_chunk_segments) >= 2

C28_DiscardOnlySimilarInOverlap ==
    MergeHasRun =>
        LET all == run.all_chunk_segments
        IN  /\ \A k \in 2..Len(all) : \A n \in 1..Len(all[k]) : DiscardRule(all, k, n)
            /\ MergedAtChunk(all, 2) = all[1]
            /\ SubSeq(Retained(all), 1, Len(all[1])) = all[1]

\* a merge that discarded a segment and kept another of the same chunk
C28_Witness ==
    /\ MergeHasRun
    /\ LET all == run.all_chunk_segments
       IN  /\ Len(all[2]) = 2
           /\ MergedAtSegment(all, 2, 1) = all[1]
           /\ MergedAtSegment(all, 2, 2) = Append(all[1], all[2][2])


(***************************************************************************)
(* C29: a chunked run of total duration T processes exactly                *)
(* floor((T - CHUNK_OVERLAP) / (chunk length - CHUNK_OVERLAP)) + 1         *)
(* windows, window i starts at i * (chunk length - CHUNK_OVERLAP), and the *)
(* span asked of the extractor is chunk length + CHUNK_OVERLAP clamped so  *)
(* that start + span does not exceed T.                                    *)
(***************************************************************************)
ClampedSpan(start, total_duration) ==
    Min(SARVAM_BATCH_MAX_DURATION + CHUNK_OVERLAP, total_duration - start)

C29_WindowsClampedToDuration ==
    run.chunked =>
        /\ run.num_chunks =
              (run.duration - CHUNK_OVERLAP)
                  \div (SARVAM_BATCH_MAX_DURATION - CHUNK_OVERLAP) + 1
        /\ Len(run.extracted) <= run.num_chunks
        /\ run.pc = "chunk_cleanup" => Len(run.extracted) = run.num_chunks
        /\ \A n \in 1..Len(run.extracted) :
              LET w == run.extracted[n]
              IN  /\ w.i = n - 1
                  /\ w.start = (n - 1) * (SARVAM_BATCH_MAX_DURATION - CHUNK_OVERLAP)
                  /\ w.span = ClampedSpan(w.start, run.duration)


(***************************************************************************)
(* C30: a status poll answering a state that is not COMPLETED, FAILED or   *)
(* one of the known in-progress states does not end the job: the loop      *)
(* sleeps a poll interval, publishes nothing and polls again, however many *)
(* such answers follow each other; the job leaves the loop only on         *)
(* COMPLETED, on FAILED or on the timeout.                                 *)
(***************************************************************************)
UnknownStatePolled ==
    /\ Len(run'.calls) = Len(run.calls) + 1
    /\ Last(run'.calls) = "get_status:unknown"

C30_UnknownStateKeepsPolling ==
    [][ run.pc = "batch_poll" =>
          /\ UnknownStatePolled =>
                /\ run'.pc = "batch_poll"
                /\ run'.result = None
                /\ run'.elapsed >= Min(run.elapsed + poll_interval, ElapsedCap)
                /\ transcription_status' = transcription_status
          /\ run'.pc # "batch_poll" =>
                \/ run'.pc = "batch_verify"
                \/ /\ run'.result # None
                   /\ FailureKind(run'.result[1])
                        \in {"Batch job failed", "Transcription timed out"} ]_vars

\* two polls in a row answered an unknown state and the job is still polling
C30_Witness ==
    /\ run.pc = "batch_poll"
    /\ Len(run.calls) >= 2
    /\ run.calls[Len(run.calls)] = "get_status:unknown"
    /\ run.calls[Len(run.calls) - 1] = "get_status:unknown"


(***************************************************************************)
(* C31: after the polling loop saw COMPLETED, the results are fetched only *)
(* when a status check made after the loop answers COMPLETED, the first    *)
(* one or the single re-check; when both answer another state the job      *)
(* fails with "Job stuck in ... state" and get_file_results is not called. *)
(***************************************************************************)
\* the status checks of the current job that the call log holds
StatusChecks(calls) ==
    SelectSeq(calls, LAMBDA name :
        name \in {"get_status", "get_status:COMPLETED", "get_status:FAILED"})

FetchStarted == run.pc \in {"batch_fetch", "batch_transform"}

C31_FetchOnlyWhenStillCompleted ==
    /\ [](FetchStarted =>
            LET checks == StatusChecks(run.calls)
            IN  /\ Len(checks) \in {1, 2}
                /\ Last(checks) = "get_status:COMPLETED"
                /\ Len(checks) = 2 => checks[1] # "get_status:COMPLETED")
    /\ [][ run.pc = "batch_verify" =>
             \/ /\ run'.pc = "batch_fetch"
                /\ run'.result = None
             \/ /\ run'.result # None
                /\ ~run'.result[1].success
                /\ FailureKind(run'.result[1])
                     \in {"Job stuck in state", "Batch API error"} ]_vars
    /\ [][ "get_file_results" \in { run'.calls[n] : n \in 1..Len(run'.calls) }
             => run.pc \in {"batch_fetch", "batch_transform"} ]_vars

\* the first check after the loop did not answer COMPLETED, the re-check did
C31_Witness ==
    /\ run.pc = "batch_fetch"
    /\ Len(StatusChecks(run.calls)) = 2
    /\ StatusChecks(run.calls)[1] = "get_status"
    /\ StatusChecks(run.calls)[2] = "get_status:COMPLETED"


(***************************************************************************)
(* C32: a subscriber yields an event only when the key's current event     *)
(* differs from the last one it yielded, so no two consecutive yielded     *)
(* events are equal; and each yielded event is the event the key held when *)
(* it was polled or, the key being absent, the default `waiting` event     *)
(* with progress 0.                                                        *)
(***************************************************************************)
C32_YieldOnlyOnChange ==
    \A s \in Subscribers :
        LET yielded == subs[s].yielded
        IN  /\ \A n \in 1..(Len(yielded) - 1) :
                  yielded[n].event # yielded[n + 1].event
            /\ subs[s].pc = "yield" =>
                  Some(Last(yielded).event) # subs[s].last_status
            /\ \A n \in 1..Len(yielded) :
                  IF yielded[n].present
                  THEN Some(yielded[n].event) = yielded[n].latest
                  ELSE /\ yielded[n].event.step = "waiting"
                       /\ yielded[n].event.progress = 0

\* a subscriber polled the absent key more than once, yielded `waiting`
\* once only, then the terminal event of a run, and ended
C32_Witness ==
    \E s \in Subscribers :
        /\ subs[s].pc = "done"
        /\ Len(subs[s].yielded) = 2
        /\ subs[s].yielded[1].event = WaitingEvent
        /\ Terminal(subs[s].yielded[2].event)
        /\ run.attached = {s}


(***************************************************************************)
(* C33: the segments transform_sarvam_sdk_response makes of diarized       *)
(* entries are, in order, the entries with text and with                   *)
(* end - start >= MIN_SEGMENT_DURATION: each has that entry's text and its *)
(* times moved by the chunk offset; the other entries are dropped and no   *)
(* entry else is.                                                          *)
(***************************************************************************)
EntryKept(entry) ==
    /\ entry.transcript # <<>>
    /\ 2 * (entry.end_time_seconds - entry.start_time_seconds)
          >= MIN_SEGMENT_DURATION_X2

NormalizedAsClaimed(sdk_result, offset) ==
    LET kept == SelectSeq(sdk_result.entries, EntryKept)
        out == transform_sarvam_sdk_response(sdk_result, offset)
    IN  /\ Len(out) = Len(kept)
        /\ \A n \in 1..Len(out) :
              /\ out[n].text = kept[n].transcript
              /\ out[n].text # <<>>
              /\ out[n].start = kept[n].start_time_seconds + offset
              /\ out[n].end = kept[n].end_time_seconds + offset
              /\ 2 * (out[n].end - out[n].start) >= MIN_SEGMENT_DURATION_X2

\* the results with diarized entries the job at hand can produce
DiarizedResults ==
    { sdk_result \in ProviderResults(run.duration, run.offset, run.job_end) :
          sdk_result.entries # <<>> }

C33_NormalizerKeepsAndDrops ==
    /\ run.pc = "batch_transform" =>
          \A sdk_result \in DiarizedResults : NormalizedAsClaimed(sdk_result, run.offset)
    /\ RunSucceeded /\ ~run.chunked =>
          \/ ReturnedSegments = transform_sarvam_sdk_response(
                 [entries |-> <<>>, transcript |-> <<"plain", "words">>], 0)
          \/ \E sdk_result \in ProviderResults(run.duration, 0, run.duration) :
                /\ ReturnedSegments = transform_sarvam_sdk_response(sdk_result, 0)
                /\ \A n \in 1..Len(ReturnedSegments) :
                      /\ ReturnedSegments[n].text # <<>>
                      /\ 2 * (ReturnedSegments[n].end - ReturnedSegments[n].start)
                            >= MIN_SEGMENT_DURATION_X2

\* a single job returned what is left of two entries, one of them dropped
C33_Witness ==
    /\ run.pc = "session_result"
    /\ RunSucceeded
    /\ ~run.chunked
    /\ Len(ReturnedSegments) = 1
    /\ \E sdk_result \in ProviderResults(run.duration, 0, run.duration) :
          /\ Len(sdk_result.entries) = 2
          /\ ~EntryKept(sdk_result.entries[2])
          /\ ReturnedSegments = transform_sarvam_sdk_response(sdk_result, 0)


(***************************************************************************)
(* C34: of a provider result without diarized entries                      *)
(* transform_sarvam_sdk_response makes exactly one segment, with the       *)
(* default speaker label, that spans the whole chunk: from the chunk's     *)
(* offset to the chunk's end.                                              *)
(***************************************************************************)
UndiarizedResults ==
    { sdk_result \in ProviderResults(run.duration, run.offset, run.job_end) :
          sdk_result.entries = <<>> }

C34_FallbackSpansChunk ==
    run.pc = "batch_transform" =>
        \A sdk_result \in UndiarizedResults :
            LET out == transform_sarvam_sdk_response(sdk_result, run.offset)
            IN  /\ Len(out) = 1
                /\ out[1].speaker = "Speaker 1"
                /\ out[1].start = run.offset
                /\ out[1].end = run.job_end


(***************************************************************************)
(* C35: the key of a run that has published its terminal event is removed  *)
(* from the status map whether or not a subscriber is attached, so that a  *)
(* subscriber attaching after the run has ended is given the fresh         *)
(* `waiting` event and never the terminal event of that run.               *)
(***************************************************************************)
\* s subscribed to the key of the run after the run had ended
AttachedAfterRun(s) ==
    /\ run.pc = "done"
    /\ run.trail # <<>>
    /\ subs[s].pc # "idle"
    /\ subs[s].key = run.key
    /\ s \notin run.attached

C35_LateSubscriberSeesWaiting ==
    \A s \in Subscribers :
        AttachedAfterRun(s) =>
            \A n \in 1..Len(subs[s].yielded) :
                /\ ~Terminal(subs[s].yielded[n].event)
                /\ n = 1 => subs[s].yielded[n].event = WaitingEvent


(***************************************************************************)
(* C36: within a run, an event with step `completed` is published only     *)
(* when the whole run has succeeded and its transcript is stored, so no    *)
(* event of the run follows it.                                            *)
(***************************************************************************)
C36_CompletedIsLastEvent ==
    /\ \A n \in 1..(Len(run.trail) - 1) : run.trail[n].step # "completed"
    /\ ( run.trail # <<>> /\ Last(run.trail).step = "completed" ) =>
          /\ run.pc = "done"
          /\ RunSucceeded
          /\ store[run.key] =
                Some(transcription_to_mongo_document(ReturnedSegments))


(***************************************************************************)
(* C37: the segments a cache hit returns for a stored transcript equal,    *)
(* field by field (id, speaker, timestamp, text), the segments returned by *)
(* the request that generated and stored it.                               *)
(***************************************************************************)
\* what transcribe_session answers from the store for key k
CacheHitSegments(k) == get_transcription_response(store[k][1])

C37_CacheRoundTrip ==
    ( run.pc = "done" /\ RunSucceeded /\ run.response[1].code = 200 ) =>
        /\ store[run.key] # None
        /\ CacheHitSegments(run.key) = run.response[1].segments


(***************************************************************************)
(* C38: coalescing loses no text.  In a merge of two or more chunks the    *)
(* texts of the output segments, one after another, are the texts of the   *)
(* segments the deduplication kept, one after another, whatever their      *)
(* speaker labels, the empty string included.                              *)
(***************************************************************************)
C38_CoalescingKeepsText ==
    MergeHasRun =>
        Words(ReturnedSegments) = Words(Retained(run.all_chunk_segments))


(***************************************************************************)
(* C39: in a chunked run every window after the first ends, clipped to the *)
(* total duration, strictly later than the window before it: no window     *)
(* lies entirely inside the previous one.                                  *)
(***************************************************************************)
ClippedEnd(w, total_duration) == Min(w.start + w.span, total_duration)

C39_EveryWindowAddsAudio ==
    run.chunked =>
        \A n \in 2..Len(run.extracted) :
            ClippedEnd(run.extracted[n], run.duration)
                > ClippedEnd(run.extracted[n - 1], run.duration)

====
